---- MODULE Spec2Model ----
(***************************************************************************)
(* Hybrid retrieval engine of the plant-disease advisory chatbot           *)
(* (src/recommendation.py, class RetrievalEngine).                         *)
(*                                                                         *)
(* The engine owns a corpus table (df), a lexical index (TF-IDF vectorizer *)
(* plus document-term matrix) and a semantic index (embedding vectors plus *)
(* embedding model).  The indexes are loaded from persisted artifacts at   *)
(* construction; the lexical index is rebuilt from the corpus when the     *)
(* artifact is missing, unreadable or not fitted.                          *)
(*                                                                         *)
(* Similarity scores are library results (scikit-learn, sentence           *)
(* transformers): each call draws them from a small set of values.  Scores *)
(* are integers counted in units of the normalisation epsilon (1e-9), and  *)
(* a combined score is kept as an exact fraction num/den, so arithmetic is *)
(* exact (floating-point rounding is not modelled).                        *)
(***************************************************************************)
EXTENDS Integers, Sequences, FiniteSets, TLC

\* ---------------------------------------------------------------- bounds
MaxRows == 2
MaxScore == 1
MaxProb == 2
\* fit_transform calls followed in the life of the two artifact paths
MaxFits == 3
\* largest per-label similarity score, in units of 0.005
MaxSim == 20

\* ------------------------------------------------------ program constants
\* epsilon of the min-max normalisation, the unit in which scores are counted
Eps == 1
\* default blend weight of retrieve (0.45), in hundredths
DefaultAlpha == 45
\* a blend weight of 1.0, in hundredths
AlphaOne == 100

AlphaVals == {0, DefaultAlpha, AlphaOne}
TopKVals == 0 .. (MaxRows + 1)
ScoreVals == 0 .. MaxScore
RowCounts == 0 .. MaxRows

\* ------------------------------------------------------------ data shapes
\* A Python reference that may be None: some = FALSE is None.
NoVectorizer == [some |-> FALSE, fitted |-> FALSE]
NoMatrix == [some |-> FALSE, rows |-> 0]
NoEmbeddings == [some |-> FALSE, rows |-> 0]
NoFile == [present |-> FALSE, fitted |-> FALSE, rows |-> 0]

Vectorizer(fitted) == [some |-> TRUE, fitted |-> fitted]
Matrix(rows) == [some |-> TRUE, rows |-> rows]
Embeddings(rows) == [some |-> TRUE, rows |-> rows]
File(fitted, rows) == [present |-> TRUE, fitted |-> fitted, rows |-> rows]

\* The image classifier module before it is imported: TORCH_AVAILABLE is not
\* set, there is no instance.
NoClassifier == [stage |-> "unloaded", torch |-> "unset", clip |-> "none", labels |-> <<>>, cache |-> [some |-> FALSE, labels |-> <<>>], cached_hash |-> [some |-> FALSE, value |-> 0]]

\* The identity of the fit behind each lexical artifact and each in-memory
\* handle: every call of fit_transform gives its vectorizer and its matrix
\* the next number; 0 stands for none or not followed.
NoFits == [vecFile |-> 0, matFile |-> 0, vec |-> 0, mat |-> 0, next |-> 0]

VARIABLES df, vecFile, matFile, embFile, tfidf_vectorizer, tfidf_matrix, embeddings, embed_model, pc, call, clf, fits

vars == <<df, vecFile, matFile, embFile, tfidf_vectorizer, tfidf_matrix, embeddings, embed_model, pc, call, clf, fits>>

\* ------------------------------------------------------- sequence helpers
Zeros(n) == [i \in 1 .. n |-> 0]

Reverse(s) == [i \in 1 .. Len(s) |-> s[Len(s) + 1 - i]]

RECURSIVE SeqMin(_)
SeqMin(s) == IF Len(s) = 1 THEN s[1] ELSE LET m == SeqMin(Tail(s)) IN IF s[1] < m THEN s[1] ELSE m

RECURSIVE SeqMax(_)
SeqMax(s) == IF Len(s) = 1 THEN s[1] ELSE LET m == SeqMax(Tail(s)) IN IF s[1] > m THEN s[1] ELSE m

AnyNonZero(s) == \E i \in 1 .. Len(s) : s[i] # 0

IntMin(a, b) == IF a < b THEN a ELSE b

\* --------------------------------------------------------------- corpus
\* The corpus object handed to the constructor: None, or a table of n rows
\* with a set of columns (all of them, or all but one).
AllColumns == {"Plant", "Disease", "Question", "question_type", "Combined"}

ColumnSets == {AllColumns} \cup {AllColumns \ {c} : c \in AllColumns}

Corpora == {[isNone |-> TRUE, cols |-> {}, n |-> 0]} \cup [isNone : {FALSE}, cols : ColumnSets, n : RowCounts]

\* Text is a sequence of characters.  The content of row i of the table.
Plants == << <<"A", "b">>, <<"b">> >>
Diseases == << <<"a">>, <<"B", "a">>, <<"b">> >>
QuestionTypes == << <<"a", "b">>, <<"A">> >>

Cyclic(list, i) == list[((i - 1) % Len(list)) + 1]

RowAt(i) == [Plant |-> Cyclic(Plants, i), Disease |-> Cyclic(Diseases, i), question_type |-> Cyclic(QuestionTypes, i)]

\* str.lower()
LowerChar(ch) == IF ch = "A" THEN "a" ELSE IF ch = "B" THEN "b" ELSE ch

Lower(text) == [i \in 1 .. Len(text) |-> LowerChar(text[i])]

\* Series.str.contains(pat): pat is a regular expression (regex=True is the
\* default).  "." matches any character; an unbalanced "(" does not compile.
PatternCompiles(pat) == \A i \in 1 .. Len(pat) : pat[i] # "("

MatchAt(text, pat, off) == \A i \in 1 .. Len(pat) : pat[i] = "." \/ pat[i] = text[off + i]

Contains(text, pat) == \E off \in 0 .. Len(text) - Len(pat) : MatchAt(text, pat, off)

\* ------------------------------------------------- fitted-state validation
\* (variant: the check looks at an attribute every vectorizer has)
ValidateTfidfAlways(v) == TRUE

\* _validate_tfidf: check_is_fitted(vectorizer, attributes=["idf_"]).
ValidateTfidf(v) == v.fitted

\* ------------------------------------------------------- lexical rebuild
\* What one run of _rebuild_tfidf meets: the fit raises (empty vocabulary),
\* the fitted object fails validation, one of the two dumps raises, or all
\* steps succeed.  A corpus of zero rows always makes the fit raise.
RebuildOutcomes == {"fit_raises", "invalid", "write1_fails", "write2_fails", "ok"}

RebuildOutcomesFor(d) == IF d.isNone \/ "Combined" \notin d.cols THEN {"no_column"} ELSE IF d.n = 0 THEN {"fit_raises"} ELSE RebuildOutcomes

\* (variant: the vectorizer file is written, with the still unfitted
\* object, before the column guard is evaluated)
RebuildTfidfDumpFirst(d, vf, mf, ro) ==
    IF d.isNone \/ "Combined" \notin d.cols
    THEN [vec |-> NoVectorizer, mat |-> NoMatrix, vf |-> File(FALSE, 0), mf |-> mf]
    ELSE IF ro = "ok"
    THEN [vec |-> Vectorizer(TRUE), mat |-> Matrix(d.n), vf |-> File(TRUE, d.n), mf |-> File(TRUE, d.n)]
    ELSE [vec |-> NoVectorizer, mat |-> NoMatrix, vf |-> File(FALSE, 0), mf |-> mf]

\* (variant: the fitted-state validation comes after the two dumps)
RebuildTfidfValidateLate(d, vf, mf, ro) ==
    IF d.isNone \/ "Combined" \notin d.cols
    THEN [vec |-> NoVectorizer, mat |-> NoMatrix, vf |-> vf, mf |-> mf]
    ELSE IF ro = "ok"
    THEN [vec |-> Vectorizer(TRUE), mat |-> Matrix(d.n), vf |-> File(TRUE, d.n), mf |-> File(TRUE, d.n)]
    ELSE IF ro = "invalid"
    THEN [vec |-> NoVectorizer, mat |-> NoMatrix, vf |-> File(FALSE, d.n), mf |-> File(TRUE, d.n)]
    ELSE IF ro = "write2_fails"
    THEN [vec |-> NoVectorizer, mat |-> NoMatrix, vf |-> File(TRUE, d.n), mf |-> mf]
    ELSE [vec |-> NoVectorizer, mat |-> NoMatrix, vf |-> vf, mf |-> mf]

\* (variant: the handles are assigned right after the validation, before
\* the dumps, and the except branch leaves them)
RebuildTfidfAssignFirst(d, vf, mf, ro) ==
    IF d.isNone \/ "Combined" \notin d.cols
    THEN [vec |-> NoVectorizer, mat |-> NoMatrix, vf |-> vf, mf |-> mf]
    ELSE IF ro = "ok"
    THEN [vec |-> Vectorizer(TRUE), mat |-> Matrix(d.n), vf |-> File(TRUE, d.n), mf |-> File(TRUE, d.n)]
    ELSE IF ro = "write2_fails"
    THEN [vec |-> Vectorizer(TRUE), mat |-> Matrix(d.n), vf |-> File(TRUE, d.n), mf |-> mf]
    ELSE IF ro = "write1_fails"
    THEN [vec |-> Vectorizer(TRUE), mat |-> Matrix(d.n), vf |-> vf, mf |-> mf]
    ELSE [vec |-> NoVectorizer, mat |-> NoMatrix, vf |-> vf, mf |-> mf]

\* _rebuild_tfidf on corpus d with persisted files vf, mf.
\* Result: the in-memory index and the files afterwards.
RebuildTfidf(d, vf, mf, ro) ==
    IF d.isNone \/ "Combined" \notin d.cols
    THEN [vec |-> NoVectorizer, mat |-> NoMatrix, vf |-> vf, mf |-> mf]
    ELSE IF ro = "ok"
    THEN [vec |-> Vectorizer(TRUE), mat |-> Matrix(d.n), vf |-> File(TRUE, d.n), mf |-> File(TRUE, d.n)]
    ELSE IF ro = "write2_fails"
    THEN [vec |-> NoVectorizer, mat |-> NoMatrix, vf |-> File(TRUE, d.n), mf |-> mf]
    ELSE [vec |-> NoVectorizer, mat |-> NoMatrix, vf |-> vf, mf |-> mf]

\* --------------------------------------------------------- lexical load
\* _load_tfidf, step 1: what the load attempt yields.
LoadedVectorizer(vf, mf, unreadable) ==
    IF vf.present /\ mf.present /\ ~unreadable THEN Vectorizer(vf.fitted) ELSE NoVectorizer

LoadedMatrix(vf, mf, unreadable) ==
    IF vf.present /\ mf.present /\ ~unreadable THEN Matrix(mf.rows) ELSE NoMatrix

\* (variant: a loaded vectorizer is taken without the fitted-state check)
NeedsRebuildIfMissing(loaded) == ~loaded.some

\* _load_tfidf, steps 2 and 3: the rebuild is skipped only when a vectorizer
\* was loaded and validates.
NeedsRebuild(loaded) == ~(loaded.some /\ ValidateTfidf(loaded))

LoadTfidf(d, vf, mf, unreadable, ro) ==
    LET lv == LoadedVectorizer(vf, mf, unreadable)
        lm == LoadedMatrix(vf, mf, unreadable)
    IN IF NeedsRebuild(lv)
       THEN LET r == RebuildTfidf(d, vf, mf, ro)
            IN [vec |-> r.vec, mat |-> r.mat, vf |-> r.vf, mf |-> r.mf, rebuilt |-> TRUE]
       ELSE [vec |-> lv, mat |-> lm, vf |-> vf, mf |-> mf, rebuilt |-> FALSE]

\* -------------------------------------------------------- semantic load
\* (variant: the except branch clears the model handle only)
LoadEmbeddingsKeepsVectors(ef, fails) ==
    IF ef.present THEN [emb |-> Embeddings(ef.rows), model |-> ~fails] ELSE [emb |-> NoEmbeddings, model |-> FALSE]

\* _load_embeddings: vectors and model are set together or cleared together.
LoadEmbeddings(ef, fails) ==
    IF ef.present /\ ~fails THEN [emb |-> Embeddings(ef.rows), model |-> TRUE] ELSE [emb |-> NoEmbeddings, model |-> FALSE]

\* ------------------------------------------------------ record of a call
\* What the last operation was given and what it gave back.  A combined
\* score is the fraction num/den; den is the same for every row of a call.
\* rebuilt: _rebuild_tfidf ran in the call; ro: what that run met;
\* embed_raised: the try block of _load_embeddings raised.
BlankCall == [op |-> "none", pat |-> <<>>, plant |-> <<>>, outcome |-> "none", exc |-> "none", path |-> "none", rebuilt |-> FALSE, ro |-> "none", saw |-> "none", embed_raised |-> FALSE, tfidf_s |-> <<>>, embed_s |-> <<>>, top_k |-> 0, alpha |-> 0, weight |-> 0, den |-> 1, combined |-> <<>>, result |-> <<>>]

Raised(c, e) == [c EXCEPT !.outcome = "raised", !.exc = e]

\* ----------------------------------------------------- ranking of retrieve
\* tfidf_active / embed_active of retrieve.
TfidfActive(vec, tfidf_s) == vec.some /\ AnyNonZero(tfidf_s)

EmbedActive(model, embed_s) == model /\ AnyNonZero(embed_s)

\* (variant: no adaptation, the caller's alpha is always used)
EffectiveAlphaFixed(tfidf_active, embed_active, alpha) == alpha

\* The adaptive blend weight, in hundredths.
EffectiveAlpha(tfidf_active, embed_active, alpha) == IF ~tfidf_active THEN 0 ELSE IF ~embed_active THEN AlphaOne ELSE alpha

\* norm(arr) = (arr - mn) / (mx - mn + 1e-9): the denominator, and below the
\* numerator of entry i.
NormDen(arr) == SeqMax(arr) - SeqMin(arr) + Eps

\* numpy broadcasting of two one-dimensional arrays: equal lengths, or one
\* of length 1 that is stretched; -1 when the shapes do not broadcast.
BroadcastLen(a, b) == IF a = b THEN a ELSE IF a = 1 THEN b ELSE IF b = 1 THEN a ELSE -1

At(arr, i) == arr[IF Len(arr) = 1 THEN 1 ELSE i]

ShiftNum(arr, i) == At(arr, i) - SeqMin(arr)

\* (variant: the weight is applied to the semantic signal)
CombinedSwapped(tfidf_s, embed_s, w) == [i \in 1 .. BroadcastLen(Len(tfidf_s), Len(embed_s)) |-> (AlphaOne - w) * ShiftNum(tfidf_s, i) * NormDen(embed_s) + w * ShiftNum(embed_s, i) * NormDen(tfidf_s)]

\* combined = effective_alpha * norm(tfidf_s) + (1 - effective_alpha) * norm(embed_s),
\* every entry over the common denominator CombinedDen.
Combined(tfidf_s, embed_s, w) == [i \in 1 .. BroadcastLen(Len(tfidf_s), Len(embed_s)) |-> w * ShiftNum(tfidf_s, i) * NormDen(embed_s) + (AlphaOne - w) * ShiftNum(embed_s, i) * NormDen(tfidf_s)]

CombinedDen(tfidf_s, embed_s) == AlphaOne * NormDen(tfidf_s) * NormDen(embed_s)

\* np.argsort(combined): the default sort kind is not stable, so every
\* ascending order of the indices is a possible result (ties in any order).
Argsorts(c) == {p \in [1 .. Len(c) -> 1 .. Len(c)] : /\ \A i, j \in 1 .. Len(c) : i # j => p[i] # p[j]
                                                     /\ \A i \in 1 .. Len(c) - 1 : c[p[i]] <= c[p[i + 1]]}

\* (variant: the slice is taken from the front, order[:top_k])
LastKFromFront(order, top_k) == IF top_k >= Len(order) THEN order ELSE SubSeq(order, 1, top_k)

\* order[-top_k:] for top_k >= 0: the slice from -0 is the whole array.
LastK(order, top_k) == IF top_k = 0 \/ top_k >= Len(order) THEN order ELSE SubSeq(order, Len(order) - top_k + 1, Len(order))

\* (variant: the slice is not reversed)
TopIdxAscending(order, top_k) == LastK(order, top_k)

\* top_idx = np.argsort(combined)[-top_k:][::-1]
TopIdx(order, top_k) == Reverse(LastK(order, top_k))

\* (variant: range(top_k) without the min)
FallbackNoMin(top_k, n) == [i \in 1 .. top_k |-> [idx |-> i, num |-> 0]]

\* The fallback of retrieve: the first min(top_k, len(df)) rows, score 0.0.
Fallback(top_k, n) == [i \in 1 .. IntMin(top_k, n) |-> [idx |-> i, num |-> 0]]

\* The ranked results: row top_idx[j] of the corpus with its combined score.
Ranked(top_idx, combined) == [j \in 1 .. Len(top_idx) |-> [idx |-> top_idx[j], num |-> combined[top_idx[j]]]]

\* Building the result dicts from the chosen rows (row = df.iloc[i], then
\* row["Question"]): the exception the loop raises, or "none".
RowsExc(d, idxs) ==
    IF Len(idxs) = 0 THEN "none"
    ELSE IF d.isNone THEN "AttributeError"
    ELSE IF idxs[1] > d.n THEN "IndexError"
    ELSE IF "Question" \notin d.cols THEN "KeyError"
    ELSE IF \E j \in 1 .. Len(idxs) : idxs[j] > d.n THEN "IndexError"
    ELSE "none"

Finish(c, d, result) ==
    LET e == RowsExc(d, [j \in 1 .. Len(result) |-> result[j].idx])
    IN IF e = "none" THEN [c EXCEPT !.outcome = "returned", !.result = result] ELSE Raised(c, e)

\* retrieve after both similarity vectors are computed (lines 216-263): the
\* set of possible outcomes (one per order argsort may return).
RankOutcomes(d, vec, model, tfidf_s, embed_s, top_k, alpha, c0) ==
    LET ta == TfidfActive(vec, tfidf_s)
        ea == EmbedActive(model, embed_s)
        w == EffectiveAlpha(ta, ea, alpha)
        c1 == [c0 EXCEPT !.tfidf_s = tfidf_s, !.embed_s = embed_s, !.top_k = top_k, !.alpha = alpha]
    IN IF ~ta /\ ~ea
       THEN IF d.isNone
            THEN {Raised([c1 EXCEPT !.path = "fallback"], "TypeError")}
            ELSE {Finish([c1 EXCEPT !.path = "fallback"], d, Fallback(top_k, d.n))}
       ELSE LET c2 == [c1 EXCEPT !.path = "ranked", !.weight = w]
            IN IF Len(tfidf_s) = 0 \/ Len(embed_s) = 0 \/ BroadcastLen(Len(tfidf_s), Len(embed_s)) = -1
               THEN {Raised(c2, "ValueError")}
               ELSE LET comb == Combined(tfidf_s, embed_s, w)
                        c3 == [c2 EXCEPT !.combined = comb, !.den = CombinedDen(tfidf_s, embed_s)]
                    IN {Finish(c3, d, Ranked(TopIdx(p, top_k), comb)) : p \in Argsorts(comb)}

\* ------------------------------------------------------- filtered lookups
\* The indices of the rows of d whose field contains pat, in corpus order.
RECURSIVE MatchingRows(_, _, _, _)
MatchingRows(field, pat, i, n) ==
    IF i > n THEN <<>>
    ELSE (IF Contains(Lower(RowAt(i)[field]), pat) THEN <<i>> ELSE <<>>) \o MatchingRows(field, pat, i + 1, n)

\* Keep the rows that also match on a second field.
RECURSIVE AlsoMatching(_, _, _)
AlsoMatching(idxs, field, pat) ==
    IF Len(idxs) = 0 THEN <<>>
    ELSE (IF Contains(Lower(RowAt(Head(idxs))[field]), pat) THEN <<Head(idxs)>> ELSE <<>>) \o AlsoMatching(Tail(idxs), field, pat)

\* subset.head(top_k) for top_k >= 0, each row tagged score 1.0.
Head1(idxs, top_k) == [j \in 1 .. IntMin(top_k, Len(idxs)) |-> [idx |-> idxs[j], num |-> 1]]

\* retrieve_by_disease(disease_name, top_k)
ByDisease(d, name, top_k, c0) ==
    LET c == [c0 EXCEPT !.pat = name, !.top_k = top_k]
    IN IF d.isNone THEN Raised(c, "AttributeError")
       ELSE IF "Disease" \notin d.cols THEN [c EXCEPT !.outcome = "returned"]
       ELSE IF ~PatternCompiles(Lower(name)) THEN Raised(c, "re.error")
       ELSE Finish(c, d, Head1(MatchingRows("Disease", Lower(name), 1, d.n), top_k))

\* retrieve_by_question_type(qtype, plant, top_k)
ByQuestionType(d, qtype, plant, top_k, c0) ==
    LET c == [c0 EXCEPT !.pat = qtype, !.plant = plant, !.top_k = top_k]
    IN IF d.isNone THEN Raised(c, "AttributeError")
       ELSE IF "question_type" \notin d.cols THEN [c EXCEPT !.outcome = "returned"]
       ELSE IF ~PatternCompiles(Lower(qtype)) THEN Raised(c, "re.error")
       ELSE LET m1 == MatchingRows("question_type", Lower(qtype), 1, d.n)
            IN IF Len(plant) = 0 THEN Finish(c, d, Head1(m1, top_k))
               ELSE IF "Plant" \notin d.cols THEN Raised(c, "KeyError")
               ELSE IF ~PatternCompiles(Lower(plant)) THEN Raised(c, "re.error")
               ELSE Finish(c, d, Head1(AlsoMatching(m1, "Plant", Lower(plant)), top_k))

\* ------------------------------------------------------ similarity steps
\* A similarity vector the library computes against m stored rows.
ScoreVectors(m) == [1 .. m -> ScoreVals]

\* _tfidf_scores up to the similarity computation.  zeros: the method
\* returns np.zeros(len(df)) (TypeError when df is None); otherwise the
\* scores come from cosine_similarity against the matrix of `rows` rows.
\* The index and the files afterwards are vec, mat, vf, mf.
\* (The NotFittedError handler of lines 185-187 cannot run: transform is
\* reached only with a vectorizer that has just validated.)
\* (variant: no early return for a disabled index, so the failed validation
\* of the missing vectorizer starts a rebuild at every query)
DisabledCheckNever(vec, mat) == FALSE

\* The guard of line 171.
DisabledCheck(vec, mat) == ~vec.some \/ ~mat.some

TfidfStep(d, vec, mat, vf, mf, ro) ==
    IF DisabledCheck(vec, mat)
    THEN [zeros |-> TRUE, rows |-> 0, vec |-> vec, mat |-> mat, vf |-> vf, mf |-> mf, rebuilt |-> FALSE]
    ELSE IF ~ValidateTfidf(vec)
    THEN LET r == RebuildTfidf(d, vf, mf, ro)
         IN [zeros |-> ~r.vec.some, rows |-> r.mat.rows, vec |-> r.vec, mat |-> r.mat, vf |-> r.vf, mf |-> r.mf, rebuilt |-> TRUE]
    ELSE [zeros |-> FALSE, rows |-> mat.rows, vec |-> vec, mat |-> mat, vf |-> vf, mf |-> mf, rebuilt |-> FALSE]

\* _embed_scores up to the similarity computation.
EmbedStep(emb, model) ==
    IF ~model \/ ~emb.some THEN [zeros |-> TRUE, rows |-> 0] ELSE [zeros |-> FALSE, rows |-> emb.rows]

\* The vectors a similarity step can return; the empty set when it raises.
\* np.zeros(len(None)) raises TypeError; cosine_similarity against zero
\* stored rows raises ValueError.
StepRaises(d, step) == IF step.zeros THEN d.isNone ELSE step.rows = 0

StepExc(step) == IF step.zeros THEN "TypeError" ELSE "ValueError"

StepVectors(d, step) == IF step.zeros THEN {Zeros(d.n)} ELSE ScoreVectors(step.rows)

\* ------------------------------------------------------------- the state
Init ==
    /\ df \in Corpora
    /\ vecFile \in {NoFile, File(FALSE, 0), File(TRUE, 0)}
    /\ matFile \in {NoFile} \cup {File(TRUE, r) : r \in 1 .. MaxRows}
    /\ embFile \in {NoFile} \cup {File(TRUE, r) : r \in RowCounts}
    /\ tfidf_vectorizer = NoVectorizer
    /\ tfidf_matrix = NoMatrix
    /\ embeddings = NoEmbeddings
    /\ embed_model = FALSE
    /\ pc = "new"
    /\ call = BlankCall
    /\ clf = NoClassifier
    /\ fits = NoFits

\* What the load attempt of the constructor met.
Saw(vf, mf, unreadable) ==
    IF ~(vf.present /\ mf.present) THEN "absent" ELSE IF unreadable THEN "unreadable" ELSE IF ~vf.fitted THEN "unfitted" ELSE "fitted"

\* RetrievalEngine(df): __init__ with _load_artifacts.  It never raises.
Construct ==
    /\ pc = "new"
    /\ \E unreadable \in (IF vecFile.present /\ matFile.present THEN BOOLEAN ELSE {FALSE}), embFails \in (IF embFile.present THEN BOOLEAN ELSE {FALSE}) :
         \E ro \in (IF NeedsRebuild(LoadedVectorizer(vecFile, matFile, unreadable)) THEN RebuildOutcomesFor(df) ELSE {"none"}) :
           LET t == LoadTfidf(df, vecFile, matFile, unreadable, ro)
               e == LoadEmbeddings(embFile, embFails)
           IN /\ tfidf_vectorizer' = t.vec
              /\ tfidf_matrix' = t.mat
              /\ vecFile' = t.vf
              /\ matFile' = t.mf
              /\ embeddings' = e.emb
              /\ embed_model' = e.model
              /\ call' = [BlankCall EXCEPT !.op = "construct", !.outcome = "returned", !.rebuilt = t.rebuilt, !.ro = ro, !.saw = Saw(vecFile, matFile, unreadable), !.embed_raised = embFails]
    /\ pc' = "responded"
    /\ UNCHANGED <<df, embFile, clf, fits>>

\* Between two calls something outside the engine strips the fitted state
\* of the vectorizer the engine holds.
Invalidate ==
    /\ pc = "ready"
    /\ tfidf_vectorizer.some /\ tfidf_vectorizer.fitted
    /\ tfidf_vectorizer' = [tfidf_vectorizer EXCEPT !.fitted = FALSE]
    /\ UNCHANGED <<df, vecFile, matFile, embFile, tfidf_matrix, embeddings, embed_model, pc, call, clf, fits>>

\* retrieve(query, top_k, alpha): the query enters through the similarity
\* vectors the two libraries return for it.
Retrieve ==
    /\ pc = "ready"
    /\ \E top_k \in TopKVals, alpha \in AlphaVals :
         \E ro \in (IF ~DisabledCheck(tfidf_vectorizer, tfidf_matrix) /\ ~ValidateTfidf(tfidf_vectorizer) THEN RebuildOutcomesFor(df) ELSE {"none"}) :
           LET t == TfidfStep(df, tfidf_vectorizer, tfidf_matrix, vecFile, matFile, ro)
               e == EmbedStep(embeddings, embed_model)
               c0 == [BlankCall EXCEPT !.op = "retrieve", !.rebuilt = t.rebuilt, !.ro = ro, !.top_k = top_k, !.alpha = alpha]
           IN /\ tfidf_vectorizer' = t.vec
              /\ tfidf_matrix' = t.mat
              /\ vecFile' = t.vf
              /\ matFile' = t.mf
              /\ IF StepRaises(df, t)
                 THEN call' = Raised(c0, StepExc(t))
                 ELSE \E tfidf_s \in StepVectors(df, t) :
                        IF StepRaises(df, e)
                        THEN call' = Raised([c0 EXCEPT !.tfidf_s = tfidf_s], StepExc(e))
                        ELSE \E embed_s \in StepVectors(df, e) :
                               call' \in RankOutcomes(df, t.vec, embed_model, tfidf_s, embed_s, top_k, alpha, c0)
    /\ pc' = "responded"
    /\ UNCHANGED <<df, embFile, embeddings, embed_model, clf, fits>>

\* The strings callers pass to the filtered lookups.
Patterns == {<<>>, <<"a">>, <<"B">>, <<".">>, <<"(">>, <<"z">>}

RetrieveByDisease ==
    /\ pc = "ready"
    /\ \E name \in Patterns, top_k \in TopKVals :
         call' = ByDisease(df, name, top_k, [BlankCall EXCEPT !.op = "by_disease"])
    /\ pc' = "responded"
    /\ UNCHANGED <<df, vecFile, matFile, embFile, tfidf_vectorizer, tfidf_matrix, embeddings, embed_model, clf, fits>>

RetrieveByQuestionType ==
    /\ pc = "ready"
    /\ \E qtype \in Patterns, plant \in Patterns, top_k \in TopKVals :
         call' = ByQuestionType(df, qtype, plant, top_k, [BlankCall EXCEPT !.op = "by_question_type"])
    /\ pc' = "responded"
    /\ UNCHANGED <<df, vecFile, matFile, embFile, tfidf_vectorizer, tfidf_matrix, embeddings, embed_model, clf, fits>>

\* The application takes the response of the call and waits for the next
\* user action (one user action, one blocking call, one response).
Rerun ==
    /\ pc = "responded"
    /\ pc' = "ready"
    /\ call' = BlankCall
    /\ UNCHANGED <<df, vecFile, matFile, embFile, tfidf_vectorizer, tfidf_matrix, embeddings, embed_model, clf, fits>>

Next == Construct \/ Invalidate \/ Retrieve \/ RetrieveByDisease \/ RetrieveByQuestionType \/ Rerun

Spec == Init /\ [][Next]_vars

\* ------------------------------------------------- the artifact build
\* build_tfidf(df) of the build script, run before the application starts.
\* Its corpus also tells how many of its searchable texts are blank.
BuildCorpora == {[isNone |-> TRUE, cols |-> {}, n |-> 0, blank |-> 0]} \cup {d \in [isNone : {FALSE}, cols : ColumnSets, n : RowCounts, blank : RowCounts] : d.blank <= d.n}

\* corpus_clean: the texts t with t and t.strip().
CorpusCleanLen(d) == d.n - d.blank

\* The three guards before the fit: the build is skipped.
BuildSkipped(d) == d.isNone \/ d.n = 0 \/ "Combined" \notin d.cols \/ CorpusCleanLen(d) = 0

BuildOutcomesFor(d) == IF BuildSkipped(d) THEN {"skipped"} ELSE RebuildOutcomes

\* The exception a run that met bo raises to its caller, or "none".
BuildExc(bo) == IF bo = "fit_raises" THEN "ValueError" ELSE IF bo = "invalid" THEN "RuntimeError" ELSE IF bo \in {"write1_fails", "write2_fails"} THEN "OSError" ELSE "none"

\* (variant: the two dumps come before the fitted-state validation)
BuildTfidfDumpFirst(d, vf, mf, bo) ==
    IF BuildSkipped(d) \/ bo = "fit_raises" \/ bo = "write1_fails" THEN [vf |-> vf, mf |-> mf]
    ELSE IF bo = "write2_fails" THEN [vf |-> File(TRUE, d.n), mf |-> mf]
    ELSE IF bo = "invalid" THEN [vf |-> File(FALSE, d.n), mf |-> File(TRUE, d.n)]
    ELSE [vf |-> File(TRUE, d.n), mf |-> File(TRUE, d.n)]

\* The artifact files after build_tfidf.  The fit is on `corpus` (every
\* text), so the matrix has one row per corpus row.
BuildTfidf(d, vf, mf, bo) ==
    IF BuildSkipped(d) \/ bo = "fit_raises" \/ bo = "invalid" \/ bo = "write1_fails" THEN [vf |-> vf, mf |-> mf]
    ELSE IF bo = "write2_fails" THEN [vf |-> File(TRUE, d.n), mf |-> mf]
    ELSE [vf |-> File(TRUE, d.n), mf |-> File(TRUE, d.n)]

InitBuild ==
    /\ df \in BuildCorpora
    /\ vecFile \in {NoFile, File(FALSE, 0), File(TRUE, 0)}
    /\ matFile \in {NoFile} \cup {File(TRUE, r) : r \in 1 .. MaxRows}
    /\ embFile = NoFile
    /\ tfidf_vectorizer = NoVectorizer
    /\ tfidf_matrix = NoMatrix
    /\ embeddings = NoEmbeddings
    /\ embed_model = FALSE
    /\ pc = "new"
    /\ call = BlankCall
    /\ clf = NoClassifier
    /\ fits = NoFits

\* The artifact paths a run of build_tfidf writes: what it leaves at two
\* paths that were empty.
BuildWrites(d, bo) == LET b == BuildTfidf(d, NoFile, NoFile, bo) IN [vec |-> b.vf.present, mat |-> b.mf.present]

\* The fits after a run that called fit_transform, wrote the paths w and
\* left the handles vec, mat in memory.
AfterFit(f, w, vec, mat) ==
    [vecFile |-> IF w.vec THEN f.next + 1 ELSE f.vecFile, matFile |-> IF w.mat THEN f.next + 1 ELSE f.matFile,
     vec |-> IF vec.some THEN f.next + 1 ELSE 0, mat |-> IF mat.some THEN f.next + 1 ELSE 0, next |-> f.next + 1]

RunBuildTfidf ==
    /\ pc = "new"
    /\ fits.next < MaxFits
    /\ \E bo \in BuildOutcomesFor(df) :
         LET b == BuildTfidf(df, vecFile, matFile, bo)
         IN /\ vecFile' = b.vf
            /\ matFile' = b.mf
            /\ fits' = IF bo = "skipped" THEN fits ELSE AfterFit(fits, BuildWrites(df, bo), NoVectorizer, NoMatrix)
            /\ call' = [BlankCall EXCEPT !.op = "build_tfidf", !.ro = bo, !.exc = BuildExc(bo), !.outcome = IF BuildExc(bo) = "none" THEN "returned" ELSE "raised"]
    /\ pc' = "built"
    /\ UNCHANGED <<df, embFile, tfidf_vectorizer, tfidf_matrix, embeddings, embed_model, clf>>

NextBuild == RunBuildTfidf

BuildSpec == InitBuild /\ [][NextBuild]_vars

\* ------------------------------------------- the life of the artifacts
\* The two lexical artifact paths over several processes: runs of the
\* build script, engine processes that load or rebuild at construction and
\* re-validate at every query, and the end of a process.
\* An artifact pair as a completed earlier run left it.
ArtifactPairs == {[vf |-> NoFile, mf |-> NoFile]} \cup {[vf |-> File(fitted, r), mf |-> File(TRUE, r)] : fitted \in BOOLEAN, r \in 1 .. MaxRows}

\* The paths a run of _rebuild_tfidf writes: what it leaves at two paths
\* that were empty.
RebuildWrites(d, ro) == LET r == RebuildTfidf(d, NoFile, NoFile, ro) IN [vec |-> r.vf.present, mat |-> r.mf.present]

\* fit_transform on texts that are all blank raises (empty vocabulary).
LexicalOutcomesFor(d) == IF ~d.isNone /\ "Combined" \in d.cols /\ CorpusCleanLen(d) = 0 THEN {"fit_raises"} ELSE RebuildOutcomesFor(d)

\* The fits after a load without rebuild: the handles hold what the paths held.
AfterLoad(f, vec, mat) == [f EXCEPT !.vec = IF vec.some THEN f.vecFile ELSE 0, !.mat = IF mat.some THEN f.matFile ELSE 0]

\* The fits after a run of _rebuild_tfidf that met ro.
AfterRebuild(f, d, ro, vec, mat) == IF ro = "no_column" THEN [f EXCEPT !.vec = 0, !.mat = 0] ELSE AfterFit(f, RebuildWrites(d, ro), vec, mat)

InitArtifacts ==
    /\ df \in BuildCorpora
    /\ \E p \in ArtifactPairs :
         /\ vecFile = p.vf
         /\ matFile = p.mf
         /\ fits = IF p.vf.present THEN [NoFits EXCEPT !.vecFile = 1, !.matFile = 1, !.next = 1] ELSE NoFits
    /\ embFile = NoFile
    /\ tfidf_vectorizer = NoVectorizer
    /\ tfidf_matrix = NoMatrix
    /\ embeddings = NoEmbeddings
    /\ embed_model = FALSE
    /\ pc = "new"
    /\ call = BlankCall
    /\ clf = NoClassifier

\* RetrievalEngine(df) as far as the lexical index goes: _load_tfidf.
ConstructLexical ==
    /\ pc = "new"
    /\ \E unreadable \in (IF vecFile.present /\ matFile.present THEN BOOLEAN ELSE {FALSE}) :
         \E ro \in (IF NeedsRebuild(LoadedVectorizer(vecFile, matFile, unreadable)) THEN LexicalOutcomesFor(df) ELSE {"none"}) :
           LET t == LoadTfidf(df, vecFile, matFile, unreadable, ro)
           IN /\ t.rebuilt => fits.next < MaxFits
              /\ tfidf_vectorizer' = t.vec
              /\ tfidf_matrix' = t.mat
              /\ vecFile' = t.vf
              /\ matFile' = t.mf
              /\ fits' = IF t.rebuilt THEN AfterRebuild(fits, df, ro, t.vec, t.mat) ELSE AfterLoad(fits, t.vec, t.mat)
              /\ call' = [BlankCall EXCEPT !.op = "construct", !.outcome = "returned", !.rebuilt = t.rebuilt, !.ro = ro, !.saw = Saw(vecFile, matFile, unreadable)]
    /\ pc' = "ready"
    /\ UNCHANGED <<df, embFile, embeddings, embed_model, clf>>

\* _tfidf_scores of a query, up to the similarity computation.
ScoreLexical ==
    /\ pc = "ready"
    /\ \E ro \in (IF ~DisabledCheck(tfidf_vectorizer, tfidf_matrix) /\ ~ValidateTfidf(tfidf_vectorizer) THEN LexicalOutcomesFor(df) ELSE {"none"}) :
         LET t == TfidfStep(df, tfidf_vectorizer, tfidf_matrix, vecFile, matFile, ro)
         IN /\ t.rebuilt => fits.next < MaxFits
            /\ tfidf_vectorizer' = t.vec
            /\ tfidf_matrix' = t.mat
            /\ vecFile' = t.vf
            /\ matFile' = t.mf
            /\ fits' = IF t.rebuilt THEN AfterRebuild(fits, df, ro, t.vec, t.mat) ELSE fits
            /\ call' = [BlankCall EXCEPT !.op = "tfidf_scores", !.outcome = "returned", !.rebuilt = t.rebuilt, !.ro = ro]
    /\ UNCHANGED <<df, embFile, embeddings, embed_model, pc, clf>>

\* The process ends: what it held in memory is gone, the paths stay.
Exit ==
    /\ pc \in {"built", "ready"}
    /\ pc' = "new"
    /\ tfidf_vectorizer' = NoVectorizer
    /\ tfidf_matrix' = NoMatrix
    /\ fits' = [fits EXCEPT !.vec = 0, !.mat = 0]
    /\ call' = BlankCall
    /\ UNCHANGED <<df, vecFile, matFile, embFile, embeddings, embed_model, clf>>

NextArtifacts == RunBuildTfidf \/ ConstructLexical \/ Invalidate \/ ScoreLexical \/ Exit

ArtifactSpec == InitArtifacts /\ [][NextArtifacts]_vars

\* ------------------------------------------------------ image classifier
\* Class labels "<plant>___<disease>", listed in sorted string order.
LabelUniverse == <<"Apple___Apple_scab", "Corn_(Maize)___healthy", "Unknown___rot">>

LabelSet == {LabelUniverse[i] : i \in 1 .. Len(LabelUniverse)}

\* _parse_label on the labels above: split at the first "___", underscores
\* to spaces, parentheses removed, stripped.
ParseLabel(label) ==
    IF label = "Apple___Apple_scab" THEN [plant |-> "Apple", disease |-> "Apple scab"]
    ELSE IF label = "Corn_(Maize)___healthy" THEN [plant |-> "Corn Maize", disease |-> "healthy"]
    ELSE [plant |-> "Unknown", disease |-> "rot"]

\* "Unknown" in p
HasUnknown(label) == label = "Unknown___rot"

\* sorted(set(labels)) for the labels of S.
RECURSIVE SortedFrom(_, _)
SortedFrom(S, i) == IF i > Len(LabelUniverse) THEN <<>> ELSE (IF LabelUniverse[i] \in S THEN <<LabelUniverse[i]>> ELSE <<>>) \o SortedFrom(S, i + 1)

\* _load_labels: the classes of the label encoder file, or the built-in list.
InitialLabels == {<<"Apple___Apple_scab", "Corn_(Maize)___healthy">>, <<"Apple___Apple_scab", "Unknown___rot">>, LabelUniverse}

\* The tables set_labels_from_df is given: with or without the Plant and
\* Disease columns, and the plant/disease pairs of their rows.
LabelFrames == [hasCols : BOOLEAN, pairs : SUBSET LabelSet]

\* What importing torch and each CLIP loader can meet.
Clip1Outcomes == {"ok", "ImportError", "OSError", "RuntimeError", "AttributeError"}

Clip2Outcomes == {"ok", "fails"}

\* _load_clip: which model the instance holds ("none" and "failed": no
\* model), and the exception that leaves the constructor, or "none".
LoadClip(torch, o1, o2) ==
    IF torch # "ok" THEN [clip |-> "none", exc |-> "none"]
    ELSE IF o1 = "ok" THEN [clip |-> "clip", exc |-> "none"]
    ELSE IF o1 \in {"ImportError", "OSError", "RuntimeError"}
    THEN [clip |-> IF o2 = "ok" THEN "open_clip" ELSE "failed", exc |-> "none"]
    ELSE [clip |-> "none", exc |-> o1]

HasModel(c) == c.clip \in {"clip", "open_clip"}

\* hash(tuple(self.labels)): a hash tells two label tuples apart only up to
\* collisions; here the tuples of the same length collide.
LabelHash(labels) == [some |-> TRUE, value |-> Len(labels)]

\* _get_text_features: the cached prompt features are reused when there is
\* a cache and the stored hash is the hash of the current labels.
CacheHit(c) == c.cache.some /\ c.cached_hash = LabelHash(c.labels)

\* (variant: the features are stored, the hash of their labels is not)
GetTextFeaturesNoHash(c) == IF CacheHit(c) THEN c ELSE [c EXCEPT !.cache = [some |-> TRUE, labels |-> c.labels]]

GetTextFeatures(c) == IF CacheHit(c) THEN c ELSE [c EXCEPT !.cache = [some |-> TRUE, labels |-> c.labels], !.cached_hash = LabelHash(c.labels)]

\* The result classify returns when there is no model.
Sentinel == <<[label |-> "N/A", plant |-> "Unknown", disease |-> "Torch not available", num |-> 0, den |-> 1]>>

\* The images classify is given: a PIL image, a path that opens, a path
\* that does not.
Images == {"pil", "path", "missing_path"}

\* Softmax probabilities of the labels, as integer weights over their sum
\* (a float can underflow to 0, the largest cannot).
RawProbs(n) == {w \in [1 .. n -> 0 .. MaxProb] : \E i \in 1 .. n : w[i] > 0}

RECURSIVE SumAt(_, _)
SumAt(w, idxs) == IF Len(idxs) = 0 THEN 0 ELSE w[Head(idxs)] + SumAt(w, Tail(idxs))

\* (variant: the top_k probabilities are returned without the division)
CalibratedNoRenorm(labels, raw, top_idx) ==
    [j \in 1 .. Len(top_idx) |->
          [label |-> labels[top_idx[j]], plant |-> ParseLabel(labels[top_idx[j]]).plant, disease |-> ParseLabel(labels[top_idx[j]]).disease,
           num |-> raw[top_idx[j]], den |-> SumAt(raw, [i \in 1 .. Len(raw) |-> i])]]

\* (variant: the division is by the largest probability, not by the sum)
CalibratedByMax(labels, raw, top_idx) ==
    [j \in 1 .. Len(top_idx) |->
          [label |-> labels[top_idx[j]], plant |-> ParseLabel(labels[top_idx[j]]).plant, disease |-> ParseLabel(labels[top_idx[j]]).disease,
           num |-> raw[top_idx[j]], den |-> IF raw[top_idx[1]] > 0 THEN raw[top_idx[1]] ELSE 1]]

\* _calibrate_confidence and the result list of classify: the top_k labels
\* by raw probability, each probability divided by the sum of the top_k
\* (left as it is when that sum is 0).
Calibrated(labels, raw, top_idx) ==
    LET top_sum == SumAt(raw, top_idx)
    IN [j \in 1 .. Len(top_idx) |->
          [label |-> labels[top_idx[j]], plant |-> ParseLabel(labels[top_idx[j]]).plant, disease |-> ParseLabel(labels[top_idx[j]]).disease,
           num |-> raw[top_idx[j]], den |-> IF top_sum > 0 THEN top_sum ELSE 1]]

InitClassifier ==
    /\ df = [isNone |-> TRUE, cols |-> {}, n |-> 0]
    /\ vecFile = NoFile
    /\ matFile = NoFile
    /\ embFile = NoFile
    /\ tfidf_vectorizer = NoVectorizer
    /\ tfidf_matrix = NoMatrix
    /\ embeddings = NoEmbeddings
    /\ embed_model = FALSE
    /\ pc = "ready"
    /\ call = BlankCall
    /\ clf = NoClassifier
    /\ fits = NoFits

\* from image_classifier_fixed import ImageClassifier: the module body runs.
\* When importing torch raised, the name torch is unbound.  The annotation
\* of _encode_image (-> torch.Tensor) is evaluated when the class body runs
\* by an interpreter that evaluates annotations eagerly (Python up to 3.13)
\* and raises NameError, so the import of the module fails; an interpreter
\* that defers annotations (Python 3.14) loads the module.
LoadModule ==
    /\ pc = "ready"
    /\ clf.stage \in {"unloaded", "failed"}
    /\ \E torchOk \in BOOLEAN, eager \in BOOLEAN :
         LET fails == ~torchOk /\ eager
         IN /\ clf' = [NoClassifier EXCEPT !.stage = IF fails THEN "failed" ELSE "module", !.torch = IF torchOk THEN "ok" ELSE "failed"]
            /\ call' = [BlankCall EXCEPT !.op = "load_module", !.outcome = IF fails THEN "raised" ELSE "returned", !.exc = IF fails THEN "NameError" ELSE "none"]
    /\ pc' = "responded"
    /\ UNCHANGED <<df, vecFile, matFile, embFile, tfidf_vectorizer, tfidf_matrix, embeddings, embed_model, fits>>

\* ImageClassifier(): __init__.
NewClassifier ==
    /\ pc = "ready"
    /\ clf.stage = "module"
    /\ \E labels \in InitialLabels, o1 \in Clip1Outcomes, o2 \in Clip2Outcomes :
         LET l == LoadClip(clf.torch, o1, o2)
         IN IF l.exc # "none"
            THEN /\ clf' = clf
                 /\ call' = [BlankCall EXCEPT !.op = "new_classifier", !.outcome = "raised", !.exc = l.exc]
            ELSE /\ clf' = [clf EXCEPT !.stage = "instance", !.clip = l.clip, !.labels = labels, !.cache = [some |-> FALSE, labels |-> <<>>], !.cached_hash = [some |-> FALSE, value |-> 0]]
                 /\ call' = [BlankCall EXCEPT !.op = "new_classifier", !.outcome = "returned"]
    /\ pc' = "responded"
    /\ UNCHANGED <<df, vecFile, matFile, embFile, tfidf_vectorizer, tfidf_matrix, embeddings, embed_model, fits>>

\* (variant: the labels are replaced and the cache is left in place)
SetLabelsKeepsCache(c, f) ==
    LET labels == {p \in f.pairs : ~HasUnknown(p)}
    IN IF f.hasCols /\ labels # {} THEN [c EXCEPT !.labels = SortedFrom(labels, 1)] ELSE c

\* The instance after set_labels_from_df(f).
SetLabels(c, f) ==
    LET labels == {p \in f.pairs : ~HasUnknown(p)}
    IN IF f.hasCols /\ labels # {} THEN [c EXCEPT !.labels = SortedFrom(labels, 1), !.cache = [some |-> FALSE, labels |-> <<>>]] ELSE c

\* set_labels_from_df(df)
SetLabelsFromDf ==
    /\ pc = "ready"
    /\ clf.stage = "instance"
    /\ \E f \in LabelFrames :
         /\ clf' = SetLabels(clf, f)
         /\ call' = [BlankCall EXCEPT !.op = "set_labels", !.outcome = "returned"]
    /\ pc' = "responded"
    /\ UNCHANGED <<df, vecFile, matFile, embFile, tfidf_vectorizer, tfidf_matrix, embeddings, embed_model, fits>>

\* classify(image_path_or_pil, top_k)
Classify ==
    /\ pc = "ready"
    /\ clf.stage = "instance"
    /\ \E image \in Images, top_k \in TopKVals :
         LET c0 == [BlankCall EXCEPT !.op = "classify", !.top_k = top_k]
         IN IF ~HasModel(clf)
            THEN /\ clf' = clf
                 /\ call' = [c0 EXCEPT !.outcome = "returned", !.path = "sentinel", !.result = Sentinel]
            ELSE IF image = "missing_path"
            THEN /\ clf' = clf
                 /\ call' = Raised(c0, "FileNotFoundError")
            ELSE /\ clf' = GetTextFeatures(clf)
                 /\ \E raw \in RawProbs(Len(clf.labels)) : \E order \in Argsorts(raw) :
                      call' = [c0 EXCEPT !.outcome = "returned", !.path = IF CacheHit(clf) THEN "cache_hit" ELSE "encoded", !.combined = raw,
                                         !.result = Calibrated(clf.labels, raw, TopIdx(order, top_k))]
    /\ pc' = "responded"
    /\ UNCHANGED <<df, vecFile, matFile, embFile, tfidf_vectorizer, tfidf_matrix, embeddings, embed_model, fits>>

NextClassifier == LoadModule \/ NewClassifier \/ SetLabelsFromDf \/ Classify \/ Rerun

ClassifierSpec == InitClassifier /\ [][NextClassifier]_vars

\* ------------------------------------------------ softmax temperature
\* Per-label scores are whole numbers of units of 0.005, so the band limits
\* 0.01, 0.05 and 0.1 are 2, 10 and 20 units.
SimVectors == UNION {[1 .. n -> 0 .. MaxSim] : n \in 1 .. 2}

\* np.max(similarity_scores) - np.min(similarity_scores)
ScoreRange(scores) == SeqMax(scores) - SeqMin(scores)

\* _find_optimal_temperature
FindOptimalTemperature(scores) ==
    IF ScoreRange(scores) < 2 THEN 30 ELSE IF ScoreRange(scores) < 10 THEN 45 ELSE IF ScoreRange(scores) < 20 THEN 60 ELSE 80

\* scores_tensor * optimal_temp: the logits F.softmax is given.
Logits(scores, temp) == [j \in 1 .. Len(scores) |-> scores[j] * temp]

\* The top-1 probability of softmax(a) is 1 / sum_j exp(-(max(a) - a[j])).
\* For two scalings a, b of one score vector the gaps max - x[j] are ordered
\* the same way at every j, so top-1 of a is at least top-1 of b exactly
\* when no gap of a is below the gap of b at the same label (a larger gap
\* is a smaller term of the sum).
Top1AtLeast(a, b) == \A j \in 1 .. Len(a) : SeqMax(a) - a[j] >= SeqMax(b) - b[j]

InitTemperature ==
    /\ df = [isNone |-> TRUE, cols |-> {}, n |-> 0]
    /\ vecFile = NoFile
    /\ matFile = NoFile
    /\ embFile = NoFile
    /\ tfidf_vectorizer = NoVectorizer
    /\ tfidf_matrix = NoMatrix
    /\ embeddings = NoEmbeddings
    /\ embed_model = FALSE
    /\ pc = "scores"
    /\ \E scores \in SimVectors : call = [op |-> "classify", scores |-> scores, optimal_temp |-> 0, logits |-> <<>>]
    /\ clf = NoClassifier
    /\ fits = NoFits

\* classify, step 5, first line: the temperature for the scores.
ChooseTemperature ==
    /\ pc = "scores"
    /\ call' = [call EXCEPT !.optimal_temp = FindOptimalTemperature(call.scores)]
    /\ pc' = "temperature"
    /\ UNCHANGED <<df, vecFile, matFile, embFile, tfidf_vectorizer, tfidf_matrix, embeddings, embed_model, clf, fits>>

\* classify, step 5, third line: softmax of the scaled scores.
ScaleScores ==
    /\ pc = "temperature"
    /\ call' = [call EXCEPT !.logits = Logits(call.scores, call.optimal_temp)]
    /\ pc' = "softmax"
    /\ UNCHANGED <<df, vecFile, matFile, embFile, tfidf_vectorizer, tfidf_matrix, embeddings, embed_model, clf, fits>>

NextTemperature == ChooseTemperature \/ ScaleScores

TemperatureSpec == InitTemperature /\ [][NextTemperature]_vars

\* ------------------------------------------------------ the application
\* One application process holds the engine and the classifier side by
\* side: main() builds the engine over a loaded table, then the classifier,
\* and every later call comes from one user action at a time.
InitApp ==
    /\ df = [isNone |-> FALSE, cols |-> AllColumns, n |-> MaxRows]
    /\ vecFile \in {File(fitted, df.n) : fitted \in BOOLEAN}
    /\ matFile = File(TRUE, df.n)
    /\ embFile \in {NoFile, File(TRUE, df.n)}
    /\ tfidf_vectorizer = NoVectorizer
    /\ tfidf_matrix = NoMatrix
    /\ embeddings = NoEmbeddings
    /\ embed_model = FALSE
    /\ pc = "new"
    /\ call = BlankCall
    /\ clf = NoClassifier
    /\ fits = NoFits

NextApp == Next \/ NextClassifier

AppSpec == InitApp /\ [][NextApp]_vars

\* ---------------------------------------------- the retrieval context
\* process_query, step 2: the records gathered for one user message.  The
\* table also tells which rows carry the same Question text: q[i] names
\* the text of row i.
ContextCorpora == {[isNone |-> FALSE, cols |-> AllColumns, n |-> Len(q), q |-> q] : q \in UNION {[1 .. n -> 1 .. n] : n \in 1 .. MaxRows}}

\* The rows of the result list of a call, in order.
Retrieved(c) == [j \in 1 .. Len(c.result) |-> c.result[j].idx]

\* seen = {r["Question"] for r in retrieval_results}
\* retrieval_results.extend(r for r in batch if r["Question"] not in seen)
ExtendUnseen(d, results, batch) == results \o SelectSeq(batch, LAMBDA i : \A k \in 1 .. Len(results) : d.q[results[k]] # d.q[i])

\* engine.retrieve(query, top_k=3) on an engine whose index validates: one
\* outcome per pair of similarity vectors and per order of argsort.
ContextRetrieve(d, vec, mat, emb, model) ==
    LET t == TfidfStep(d, vec, mat, NoFile, NoFile, "none")
        e == EmbedStep(emb, model)
    IN UNION {RankOutcomes(d, t.vec, model, tfidf_s, embed_s, 3, DefaultAlpha, [BlankCall EXCEPT !.op = "retrieve"]) : tfidf_s \in StepVectors(d, t), embed_s \in StepVectors(d, e)}

Gathered(context) == [outcome |-> "returned", context |-> context]

Propagated == [outcome |-> "raised", context |-> <<>>]

\* The four branches of step 2, R being what engine.retrieve can return.
ContextOutcomes(d, image, qtype, plant, disease, R) ==
    IF image /\ qtype # <<>>
    THEN LET qtype_results == ByQuestionType(d, qtype, plant, 3, BlankCall)
             disease_results == ByDisease(d, disease, 2, BlankCall)
             fallback == ByQuestionType(d, qtype, <<>>, 3, BlankCall)
         IN IF qtype_results.outcome = "raised" \/ disease_results.outcome = "raised" THEN {Propagated}
            ELSE LET results == ExtendUnseen(d, Retrieved(qtype_results), Retrieved(disease_results))
                 IN IF Len(qtype_results.result) > 0 THEN {Gathered(results)}
                    ELSE IF fallback.outcome = "raised" THEN {Propagated}
                    ELSE {Gathered(ExtendUnseen(d, results, Retrieved(fallback)))}
    ELSE IF image
    THEN LET extra == ByDisease(d, disease, 2, BlankCall)
         IN {IF r.outcome = "raised" \/ extra.outcome = "raised" THEN Propagated ELSE Gathered(ExtendUnseen(d, Retrieved(r), Retrieved(extra))) : r \in R}
    ELSE IF qtype # <<>>
    THEN LET results == ByQuestionType(d, qtype, <<>>, 5, BlankCall)
         IN IF results.outcome = "raised" THEN {Propagated}
            ELSE IF Len(results.result) < 3
            THEN {IF general.outcome = "raised" THEN Propagated ELSE Gathered(ExtendUnseen(d, Retrieved(results), Retrieved(general))) : general \in R}
            ELSE {Gathered(Retrieved(results))}
    ELSE {IF r.outcome = "raised" THEN Propagated ELSE Gathered(Retrieved(r)) : r \in R}

\* The engine is built and its lexical index validates.
InitContext ==
    /\ df \in ContextCorpora
    /\ vecFile = File(TRUE, df.n)
    /\ matFile = File(TRUE, df.n)
    /\ embFile = File(TRUE, df.n)
    /\ tfidf_vectorizer = Vectorizer(TRUE)
    /\ tfidf_matrix = Matrix(df.n)
    /\ embeddings = Embeddings(df.n)
    /\ embed_model = TRUE
    /\ pc = "ready"
    /\ call = BlankCall
    /\ clf = NoClassifier
    /\ fits = NoFits

\* process_query(user_input, uploaded_image, qtype), step 2.  image: there
\* are image classifications; plant, disease: what they detected.
ProcessQuery ==
    /\ pc = "ready"
    /\ \E image \in BOOLEAN, qtype \in Patterns :
         \E plant \in (IF image THEN Patterns ELSE {<<>>}), disease \in (IF image THEN Patterns ELSE {<<>>}) :
           \E o \in ContextOutcomes(df, image, qtype, plant, disease, ContextRetrieve(df, tfidf_vectorizer, tfidf_matrix, embeddings, embed_model)) :
             call' = [op |-> "process_query", image |-> image, qtype |-> qtype, plant |-> plant, disease |-> disease, outcome |-> o.outcome, context |-> o.context]
    /\ pc' = "responded"
    /\ UNCHANGED <<df, vecFile, matFile, embFile, tfidf_vectorizer, tfidf_matrix, embeddings, embed_model, clf, fits>>

NextContext == ProcessQuery \/ Rerun

ContextSpec == InitContext /\ [][NextContext]_vars

\* ======================================================= checked properties
\* Vocabulary of the properties, spelled out independently of the operators
\* above.
Lowest(s) == CHOOSE x \in {s[i] : i \in 1 .. Len(s)} : \A i \in 1 .. Len(s) : x <= s[i]

Highest(s) == CHOOSE x \in {s[i] : i \in 1 .. Len(s)} : \A i \in 1 .. Len(s) : x >= s[i]

\* Entry i of a vector stretched to the length of the combined vector.
Entry(s, i) == IF Len(s) = 1 THEN s[1] ELSE s[i]

ResultRows == {call.result[j].idx : j \in 1 .. Len(call.result)}

ReturnedRetrieve == call.op = "retrieve" /\ call.outcome = "returned"

RankedReturn == ReturnedRetrieve /\ call.path = "ranked"

LexicalActive == tfidf_vectorizer.some /\ \E i \in 1 .. Len(call.tfidf_s) : call.tfidf_s[i] # 0

SemanticActive == embed_model /\ \E i \in 1 .. Len(call.embed_s) : call.embed_s[i] # 0

\* A table with every column of a record, of any size.
ValidTable == ~df.isNone /\ df.cols = AllColumns

\* Both similarity vectors have one entry per corpus row.
Aligned == Len(call.tfidf_s) = df.n /\ Len(call.embed_s) = df.n

\* C1: for 0 <= top_k <= corpus size, retrieve returns exactly top_k
\* records, each a row of the corpus, no row twice (ranked and fallback
\* path).  Stated for indexes that have one row per corpus row.
C1_ExactlyTopK ==
    (ReturnedRetrieve /\ ValidTable /\ Aligned /\ call.top_k <= df.n) =>
        /\ Len(call.result) = call.top_k
        /\ ResultRows \subseteq 1 .. df.n
        /\ Cardinality(ResultRows) = Len(call.result)

\* C2: on the ranked path with top_k >= 1 the result holds the top_k rows
\* with the highest combined scores, in non-increasing order of score.
C2_TopKHighestDescending ==
    (RankedReturn /\ call.top_k >= 1) =>
        /\ Len(call.result) = IF call.top_k < Len(call.combined) THEN call.top_k ELSE Len(call.combined)
        /\ Cardinality(ResultRows) = Len(call.result)
        /\ \A j \in 1 .. Len(call.result) : call.result[j].num = call.combined[call.result[j].idx]
        /\ \A j \in 1 .. Len(call.result) - 1 : call.result[j].num >= call.result[j + 1].num
        /\ \A i \in 1 .. Len(call.combined) : i \notin ResultRows => \A j \in 1 .. Len(call.result) : call.combined[i] <= call.result[j].num

C2_Witness ==
    /\ RankedReturn /\ ValidTable /\ Aligned
    /\ call.top_k = 1 /\ df.n = 2
    /\ call.combined[1] < call.combined[2]
    /\ ResultRows = {2}

\* C3: rows with exactly the same combined score are taken in corpus order:
\* the tied row with the smaller index is selected first and placed earlier.
C3_TiesByCorpusOrder ==
    (RankedReturn /\ ValidTable /\ Aligned /\ call.top_k >= 1) =>
        /\ \A j, k \in 1 .. Len(call.result) : (j < k /\ call.result[j].num = call.result[k].num) => call.result[j].idx < call.result[k].idx
        /\ \A i \in 1 .. Len(call.combined) : i \notin ResultRows => \A j \in 1 .. Len(call.result) : call.combined[i] = call.result[j].num => call.result[j].idx < i

\* C4: the effective blend weight is 0 when only the semantic signal is
\* active, 1 when only the lexical signal is active, the caller's alpha
\* when both are; every combined score is
\* weight * normalized_lexical + (1 - weight) * normalized_semantic.
C4_EffectiveWeight ==
    (call.op = "retrieve" /\ call.path = "ranked") =>
        /\ (~LexicalActive /\ SemanticActive) => call.weight = 0
        /\ (LexicalActive /\ ~SemanticActive) => call.weight = AlphaOne
        /\ (LexicalActive /\ SemanticActive) => call.weight = call.alpha
        /\ call.outcome = "returned" =>
              LET dl == Highest(call.tfidf_s) - Lowest(call.tfidf_s) + Eps
                  ds == Highest(call.embed_s) - Lowest(call.embed_s) + Eps
              IN /\ call.den = AlphaOne * dl * ds
                 /\ \A i \in 1 .. Len(call.combined) :
                       call.combined[i] = call.weight * (Entry(call.tfidf_s, i) - Lowest(call.tfidf_s)) * ds + (AlphaOne - call.weight) * (Entry(call.embed_s, i) - Lowest(call.embed_s)) * dl

C4_Witness ==
    /\ RankedReturn /\ ValidTable /\ Aligned
    /\ LexicalActive /\ ~SemanticActive
    /\ call.alpha = 0 /\ call.weight = AlphaOne
    /\ \E i \in 1 .. Len(call.combined) : call.combined[i] > 0

\* C5: with both signals inactive retrieve returns the first min(top_k, N)
\* rows of the corpus in corpus order, each with score 0.0 (so [] for an
\* empty corpus and a non-empty list when N >= 1 and top_k >= 1).  Stated
\* for a table that has the columns of a record.
C5_FallbackFirstRows ==
    (call.op = "retrieve" /\ call.path # "none" /\ ValidTable /\ ~LexicalActive /\ ~SemanticActive) =>
        /\ call.path = "fallback"
        /\ call.outcome = "returned"
        /\ Len(call.result) = (IF call.top_k < df.n THEN call.top_k ELSE df.n)
        /\ \A j \in 1 .. Len(call.result) : call.result[j].idx = j /\ call.result[j].num = 0
        /\ call.den = 1

C5_Witness ==
    /\ ReturnedRetrieve /\ call.path = "fallback" /\ ValidTable
    /\ df.n = 2 /\ call.top_k = 3
    /\ Len(call.result) = 2

\* C6: with the lexical index disabled over a corpus that lacks the
\* searchable-text column and the semantic signal active, every returned
\* score equals the min-max normalized semantic score of its row, whatever
\* alpha the caller passed.
C6_EmbeddingOnlyExact ==
    (RankedReturn /\ ~df.isNone /\ "Combined" \notin df.cols /\ ~tfidf_vectorizer.some /\ SemanticActive) =>
        /\ \A i \in 1 .. Len(call.tfidf_s) : call.tfidf_s[i] = 0
        /\ \A j \in 1 .. Len(call.result) :
              call.result[j].num * (Highest(call.embed_s) - Lowest(call.embed_s) + Eps) = (Entry(call.embed_s, call.result[j].idx) - Lowest(call.embed_s)) * call.den

C6_Witness ==
    /\ RankedReturn /\ ~df.isNone /\ "Combined" \notin df.cols /\ ~tfidf_vectorizer.some /\ SemanticActive
    /\ Len(call.embed_s) = df.n
    /\ call.alpha = AlphaOne
    /\ \E j \in 1 .. Len(call.result) : call.result[j].num > 0

\* C7: in every combination of sub-index states and for every query,
\* retrieve returns a list and raises nothing.  Stated for a valid table
\* of at least one row and a semantic index that is disabled or holds at
\* least one vector.
C7_RetrieveNeverRaises ==
    (call.op = "retrieve" /\ ValidTable /\ df.n >= 1 /\ (embeddings.some => embeddings.rows >= 1)) => call.outcome = "returned"

\* C8: an engine constructed over an empty or invalid corpus (no rows, no
\* corpus object, a missing column) is queryable: construction and every
\* later retrieve, retrieve_by_question_type and retrieve_by_disease return
\* and raise nothing.
C8_InvalidCorpusQueryable ==
    ((df.isNone \/ df.n = 0 \/ df.cols # AllColumns) /\ call.op \in {"construct", "retrieve", "by_question_type", "by_disease"}) => call.outcome = "returned"

\* C9: in the constructor the lexical rebuild is attempted exactly when the
\* artifact is absent (either file missing), unreadable, or loaded but not
\* fitted; when construction ends the index is LOADED_VALID (validated
\* vectorizer plus matrix) or DISABLED (neither).
C9_ConstructLifecycle ==
    call.op = "construct" =>
        /\ call.rebuilt <=> call.saw \in {"absent", "unreadable", "unfitted"}
        /\ call.saw = "fitted" => ~call.rebuilt
        /\ \/ tfidf_vectorizer.some /\ tfidf_vectorizer.fitted /\ tfidf_matrix.some
           \/ ~tfidf_vectorizer.some /\ ~tfidf_matrix.some

C9_Witness ==
    /\ call.op = "construct" /\ call.saw = "unfitted" /\ call.rebuilt
    /\ tfidf_vectorizer.some /\ tfidf_vectorizer.fitted /\ tfidf_matrix.some

\* C10: DISABLED is terminal: from a constructed engine whose lexical index
\* is disabled, no call attempts a rebuild or makes the index valid again,
\* and every lexical similarity vector it computes is all zeros.
C10_DisabledTerminal ==
    [][(pc # "new" /\ ~tfidf_vectorizer.some) =>
          /\ ~tfidf_vectorizer'.some /\ ~tfidf_matrix'.some
          /\ ~call'.rebuilt
          /\ \A i \in 1 .. Len(call'.tfidf_s) : call'.tfidf_s[i] = 0]_vars

C10_Witness ==
    /\ ~tfidf_vectorizer.some
    /\ RankedReturn /\ ValidTable
    /\ Len(call.tfidf_s) = 2

\* C11: when a lexical rebuild runs over a table without the searchable-text
\* column, the lexical index ends disabled, neither artifact file is
\* touched, the constructor returns, and the semantic index is what the
\* embedding cache alone determines (vectors and model together, of the
\* cached size, or both cleared); at query time it is left as it was.
C11_NoColumnDisablesLexicalOnly ==
    [][(call'.rebuilt /\ ~df.isNone /\ "Combined" \notin df.cols) =>
          /\ ~tfidf_vectorizer'.some /\ ~tfidf_matrix'.some
          /\ vecFile' = vecFile /\ matFile' = matFile
          /\ call'.op = "construct" =>
                /\ call'.outcome = "returned"
                /\ embeddings'.some <=> embed_model'
                /\ embeddings'.some => (embFile.present /\ embeddings'.rows = embFile.rows)
                /\ ~embFile.present => ~embeddings'.some
          /\ call'.op = "retrieve" =>
                /\ embeddings' = embeddings /\ embed_model' = embed_model
                /\ Len(call'.tfidf_s) = df.n
                /\ \A i \in 1 .. Len(call'.tfidf_s) : call'.tfidf_s[i] = 0]_vars

C11_Witness ==
    /\ call.op = "construct" /\ call.rebuilt /\ call.saw = "absent"
    /\ ~df.isNone /\ "Combined" \notin df.cols /\ df.n = 2
    /\ ~tfidf_vectorizer.some /\ ~vecFile.present
    /\ embeddings.some /\ embeddings.rows = 2 /\ embed_model

\* C12: at query time an enabled lexical index is re-validated before it is
\* used.  A fitted one is used as it is, without a rebuild.  An unfitted one
\* gets one rebuild in that call: when the rebuild succeeds the index is
\* valid again, has one row per corpus row and scores the query; when it
\* fails the index is disabled and the lexical vector of the call is all
\* zeros (one entry per corpus row when the corpus is a table).
C12_QueryRevalidation ==
    [][(pc = "ready" /\ call'.op = "retrieve" /\ tfidf_vectorizer.some /\ tfidf_matrix.some) =>
          /\ tfidf_vectorizer.fitted =>
                /\ ~call'.rebuilt
                /\ tfidf_vectorizer' = tfidf_vectorizer /\ tfidf_matrix' = tfidf_matrix
                /\ Len(call'.tfidf_s) = tfidf_matrix.rows
          /\ ~tfidf_vectorizer.fitted =>
                /\ call'.rebuilt
                /\ \/ /\ tfidf_vectorizer'.some /\ tfidf_vectorizer'.fitted
                      /\ tfidf_matrix'.some /\ tfidf_matrix'.rows = df.n
                      /\ Len(call'.tfidf_s) = df.n
                   \/ /\ ~tfidf_vectorizer'.some /\ ~tfidf_matrix'.some
                      /\ \A i \in 1 .. Len(call'.tfidf_s) : call'.tfidf_s[i] = 0
                      /\ ~df.isNone => Len(call'.tfidf_s) = df.n]_vars

C12_Witness ==
    /\ RankedReturn /\ call.rebuilt /\ ValidTable /\ df.n = 2
    /\ tfidf_vectorizer.some /\ tfidf_vectorizer.fitted /\ tfidf_matrix.rows = 2
    /\ call.tfidf_s = <<0, 1>>
    /\ call.result[1].idx = 2

\* C13: a rebuild whose fitted vectorizer fails the validation ends with the
\* index disabled, both artifact files as they were and no handle set; the
\* RuntimeError it raises stays inside the rebuild: the constructor returns,
\* and at query time the lexical step returns its all-zero vector.
C13_InvalidFitDisables ==
    [][(call'.rebuilt /\ call'.ro = "invalid") =>
          /\ ~tfidf_vectorizer'.some /\ ~tfidf_matrix'.some
          /\ vecFile' = vecFile /\ matFile' = matFile
          /\ call'.exc # "RuntimeError"
          /\ call'.op = "construct" => call'.outcome = "returned"
          /\ call'.op = "retrieve" =>
                /\ Len(call'.tfidf_s) = df.n
                /\ \A i \in 1 .. Len(call'.tfidf_s) : call'.tfidf_s[i] = 0]_vars

C13_Witness ==
    /\ ReturnedRetrieve /\ call.rebuilt /\ call.ro = "invalid"
    /\ ValidTable /\ df.n = 2
    /\ ~tfidf_vectorizer.some /\ vecFile.present /\ vecFile.fitted
    /\ call.tfidf_s = <<0, 0>>

\* C14: build_tfidf leaves both artifact files as they were when the corpus
\* is absent or has no rows, when the searchable-text column is missing and
\* when every text is blank (it returns), and when the fitted vectorizer
\* fails the validation (it raises); whenever a file is written the fit has
\* passed the validation, and what is written is a fitted vectorizer.
C14_BuildWritesAfterGuards ==
    [][call'.op = "build_tfidf" =>
          /\ (df.isNone \/ df.n = 0 \/ "Combined" \notin df.cols \/ df.blank = df.n) =>
                /\ vecFile' = vecFile /\ matFile' = matFile
                /\ call'.outcome = "returned"
          /\ call'.ro = "invalid" =>
                /\ vecFile' = vecFile /\ matFile' = matFile
                /\ call'.outcome = "raised" /\ call'.exc = "RuntimeError"
          /\ (vecFile' # vecFile \/ matFile' # matFile) =>
                /\ call'.ro \in {"ok", "write2_fails"}
                /\ vecFile'.present /\ vecFile'.fitted]_vars

C14_Witness ==
    /\ call.op = "build_tfidf" /\ call.ro = "ok" /\ call.outcome = "returned"
    /\ df.n = 2 /\ df.blank = 1
    /\ vecFile = File(TRUE, 2) /\ matFile = File(TRUE, 2)

\* C15: the semantic index is loaded once, by the constructor, which
\* returns whatever the load met: with the cache missing or the load
\* raising, vectors and model handle are both cleared; otherwise both are
\* set.  No later step changes the vectors, the model handle or the cache
\* file, and a disabled semantic index scores every row zero.
C15_SemanticLoadedOnce ==
    [][/\ embFile' = embFile
       /\ call'.op = "construct" =>
             /\ call'.outcome = "returned"
             /\ embeddings'.some <=> embed_model'
             /\ (~embFile.present \/ call'.embed_raised) => (~embeddings'.some /\ ~embed_model')
             /\ (embFile.present /\ ~call'.embed_raised) => (embeddings'.some /\ embeddings'.rows = embFile.rows /\ embed_model')
       /\ pc # "new" => (embeddings' = embeddings /\ embed_model' = embed_model)
       /\ (call'.op = "retrieve" /\ ~embed_model) => \A i \in 1 .. Len(call'.embed_s) : call'.embed_s[i] = 0]_vars

C15_Witness ==
    /\ call.op = "construct" /\ call.outcome = "returned" /\ call.embed_raised
    /\ embFile.present /\ embFile.rows = 2
    /\ ~embeddings.some /\ ~embed_model

\* C16: whenever a sub-index is enabled it has one row per corpus record:
\* the lexical matrix and the semantic vectors both count as many rows as
\* the corpus (a cache left from a corpus of another size is not accepted).
\* Stated for a table with every column and at least one row, and for a
\* semantic cache that holds at least one vector.
C16_IndexSizesMatchCorpus ==
    (pc # "new" /\ ValidTable /\ df.n >= 1 /\ (embeddings.some => embeddings.rows >= 1)) =>
        /\ (tfidf_vectorizer.some /\ tfidf_matrix.some) => tfidf_matrix.rows = df.n
        /\ (embeddings.some /\ embed_model) => embeddings.rows = df.n

\* Vocabulary of the filter claims: case folding and literal containment,
\* spelled out independently of the operators of the model.
Folded(text) == [i \in 1 .. Len(text) |-> IF text[i] = "A" THEN "a" ELSE IF text[i] = "B" THEN "b" ELSE text[i]]

HasSubstring(text, part) == \E off \in 0 .. Len(text) - Len(part) : \A i \in 1 .. Len(part) : text[off + i] = part[i]

HasFolded(text, part) == HasSubstring(Folded(text), Folded(part))

\* A string without characters that are special in a regular expression.
PlainText(part) == \A i \in 1 .. Len(part) : part[i] \notin {".", "("}

\* The call returned the first min(top_k, m) of the m rows of M, in corpus
\* order, each with score 1.0.
ReturnedFirstOf(M) ==
    /\ call.outcome = "returned"
    /\ Len(call.result) = (IF call.top_k < Cardinality(M) THEN call.top_k ELSE Cardinality(M))
    /\ \A j \in 1 .. Len(call.result) : call.result[j].idx \in M /\ call.result[j].num = 1
    /\ \A j \in 1 .. Len(call.result) - 1 : call.result[j].idx < call.result[j + 1].idx
    /\ \A i \in M \ ResultRows : \A j \in 1 .. Len(call.result) : call.result[j].idx < i

\* The rows a category string and an optional plant string select.
CategoryRows == {i \in 1 .. df.n : /\ HasFolded(RowAt(i).question_type, call.pat)
                                   /\ call.plant # <<>> => HasFolded(RowAt(i).Plant, call.plant)}

\* The rows an entity name selects: it is part of the disease or the plant.
EntityRows == {i \in 1 .. df.n : HasFolded(RowAt(i).Disease, call.pat) \/ HasFolded(RowAt(i).Plant, call.pat)}

\* C17: retrieve_by_question_type returns the first min(top_k, m) rows, in
\* corpus order and each with score 1.0, of the m rows whose category
\* contains the category string, and whose plant contains the plant string
\* when one is given, as literal case-insensitive substrings.  Stated for
\* the calls that return, over a table with every column.
C17_CategoryLiteralFilter ==
    (call.op = "by_question_type" /\ call.outcome = "returned" /\ ValidTable) => ReturnedFirstOf(CategoryRows)

\* C18: retrieve_by_question_type returns [] and raises nothing when the
\* table has no category column or no row matches, a missing plant column
\* under a plant filter included.  Stated for category and plant strings
\* of plain characters.
C18_CategoryEmptyNotError ==
    (call.op = "by_question_type" /\ ~df.isNone /\ PlainText(call.pat) /\ PlainText(call.plant)
       /\ ("question_type" \notin df.cols \/ (call.plant # <<>> /\ "Plant" \notin df.cols) \/ CategoryRows = {})) =>
        call.outcome = "returned" /\ call.result = <<>>

\* C19: retrieve_by_disease returns the first min(top_k, m) rows, in corpus
\* order and each with score 1.0, of the m rows whose disease or plant
\* contains the entity name as a case-insensitive substring.  Stated for
\* names of plain characters over a table with every column.
C19_EntityDiseaseOrPlant ==
    (call.op = "by_disease" /\ ValidTable /\ PlainText(call.pat)) => ReturnedFirstOf(EntityRows)

\* C20: when the backend is unavailable (importing torch failed, or both
\* CLIP loaders failed), importing the classifier module, constructing the
\* classifier and classify all return, and classify returns one sentinel
\* result (label "N/A", confidence 0.0, plant "Unknown") for every image
\* and every top_k.
C20_UnavailableBackendSentinel ==
    (clf.torch = "failed" \/ clf.clip = "failed") =>
        /\ call.op \in {"load_module", "new_classifier", "classify"} => call.outcome = "returned"
        /\ call.op = "classify" =>
              /\ Len(call.result) = 1
              /\ call.result[1].label = "N/A" /\ call.result[1].num = 0 /\ call.result[1].plant = "Unknown"

\* C21: a classify call that scores an image uses prompt embeddings computed
\* from the labels current at that call and names only current labels; a
\* call that replaces the labels leaves no cache behind; while the cache is
\* in place (no replacement since the last encoding) classify does not
\* encode again, and without a cache it encodes.
C21_CacheFollowsLabels ==
    [][/\ (call'.op = "classify" /\ call'.path \in {"cache_hit", "encoded"}) =>
             /\ clf'.cache.some /\ clf'.cache.labels = clf.labels /\ clf'.labels = clf.labels
             /\ \A j \in 1 .. Len(call'.result) : \E i \in 1 .. Len(clf.labels) : call'.result[j].label = clf.labels[i]
             /\ clf.cache.some => (call'.path = "cache_hit" /\ clf' = clf)
             /\ ~clf.cache.some => call'.path = "encoded"
       /\ (call'.op = "set_labels" /\ clf'.labels # clf.labels) => ~clf'.cache.some]_vars

C21_Witness ==
    /\ call.op = "classify" /\ call.path = "encoded"
    /\ clf.labels = <<"Apple___Apple_scab">>
    /\ clf.cached_hash.some /\ clf.cache.labels = clf.labels
    /\ Len(call.result) = 1

\* Vocabulary of the calibration claims.  A raw probability is its weight
\* over TotalRaw, a calibrated confidence is num over den.
RECURSIVE SeqSum(_)
SeqSum(w) == IF Len(w) = 0 THEN 0 ELSE Head(w) + SeqSum(Tail(w))

Scored == call.op = "classify" /\ call.path \in {"cache_hit", "encoded"}

TotalRaw == SeqSum(call.combined)

\* One label has a strictly higher raw probability than every other.
Dominant(i) == \A j \in 1 .. Len(call.combined) : j # i => call.combined[i] > call.combined[j]

\* The raw weights of the labels that are not in the result.
OutsideRaw == {call.combined[i] : i \in {k \in 1 .. Len(clf.labels) : \A j \in 1 .. Len(call.result) : call.result[j].label # clf.labels[k]}}

RawOf(label) == call.combined[CHOOSE i \in 1 .. Len(clf.labels) : clf.labels[i] = label]

\* C22 (as stated): when one label strictly dominates and top_k >= 1, the
\* calibrated top-1 confidence is strictly greater than that label's raw
\* probability.  Stated for distributions without a zero probability.
C22_CalibratedStrictlyAboveRaw ==
    (Scored /\ call.top_k >= 1 /\ (\E i \in 1 .. Len(call.combined) : Dominant(i)) /\ \A i \in 1 .. Len(call.combined) : call.combined[i] > 0) =>
        call.result[1].num * TotalRaw > call.result[1].num * call.result[1].den

\* C22 (amended): when one label strictly dominates and top_k >= 1, the
\* first result is that label, its calibrated confidence is never below its
\* raw probability, and it is strictly greater exactly when some label left
\* out of the top_k has a raw probability above zero.
C22_CalibratedAtLeastRaw ==
    (Scored /\ call.top_k >= 1 /\ \E i \in 1 .. Len(call.combined) : Dominant(i)) =>
        /\ \E i \in 1 .. Len(call.combined) : Dominant(i) /\ call.result[1].label = clf.labels[i] /\ call.result[1].num = call.combined[i]
        /\ call.result[1].num * TotalRaw >= call.result[1].num * call.result[1].den
        /\ (call.result[1].num * TotalRaw > call.result[1].num * call.result[1].den) <=> (\E x \in OutsideRaw : x > 0)

C22_Witness ==
    /\ Scored /\ call.top_k = 2 /\ Len(clf.labels) = 3
    /\ call.combined = <<1, 2, 1>>
    /\ call.result[1].label = clf.labels[2] /\ call.result[1].den = 3

BestOnBoth(r) == call.tfidf_s[r] = Highest(call.tfidf_s) /\ call.embed_s[r] = Highest(call.embed_s)

\* A query over a non-empty table with every column, served by indexes
\* that have one row per record, with top_k >= 1 and an active signal.
RankedOverCorpus == RankedReturn /\ ValidTable /\ Aligned /\ df.n >= 1 /\ call.top_k >= 1

\* C24 (as stated): a record that attains the maximum similarity on both
\* signals is placed at position 0, with the maximum combined score.
C24_BestRecordFirst ==
    RankedOverCorpus =>
        \A r \in 1 .. df.n : BestOnBoth(r) => (call.result[1].idx = r /\ call.result[1].num = Highest(call.combined))

\* C24 (amended): a record that attains the maximum similarity on both
\* signals has the maximum combined score, position 0 holds a record with
\* that score, and it holds that record when no other record has the same
\* combined score.
C24_BestScoreFirst ==
    RankedOverCorpus =>
        \A r \in 1 .. df.n : BestOnBoth(r) =>
            /\ call.combined[r] = Highest(call.combined)
            /\ call.result[1].num = call.combined[r]
            /\ (\A i \in 1 .. df.n : i # r => call.combined[i] < call.combined[r]) => call.result[1].idx = r

C24_Witness ==
    /\ RankedOverCorpus /\ df.n = 2 /\ call.alpha = DefaultAlpha
    /\ call.tfidf_s = <<0, 1>> /\ call.embed_s = <<0, 1>>
    /\ call.result[1].idx = 2 /\ call.result[1].num > 0

\* The last operation ran _rebuild_tfidf.
RebuildRan == call.op \in {"construct", "tfidf_scores"} /\ call.rebuilt

\* C26: when _rebuild_tfidf ends with the in-memory vectorizer and matrix
\* set, both artifact paths hold the vectorizer and the matrix of that same
\* fit; a rebuild in which a write failed ends with the index disabled.
C26_RebuildPersistsFirst ==
    RebuildRan =>
        /\ (tfidf_vectorizer.some /\ tfidf_matrix.some) =>
             (vecFile.present /\ matFile.present /\ fits.vec = fits.next /\ fits.mat = fits.next /\ fits.vecFile = fits.next /\ fits.matFile = fits.next)
        /\ call.ro \in {"write1_fails", "write2_fails"} => (~tfidf_vectorizer.some /\ ~tfidf_matrix.some)

C26_Witness ==
    /\ call.op = "tfidf_scores" /\ call.rebuilt /\ call.ro = "ok"
    /\ tfidf_vectorizer.some /\ tfidf_matrix.some
    /\ fits.next >= 2 /\ fits.vecFile = fits.next /\ fits.matFile = fits.next

\* C28: no row of a fitted document-term matrix stands for a blank text:
\* after build_tfidf or a rebuild went through, the matrix has one row per
\* non-blank searchable text.
C28_BlankTextsDropped ==
    (call.op \in {"build_tfidf", "construct", "tfidf_scores"} /\ call.ro = "ok") =>
        /\ matFile.rows = CorpusCleanLen(df)
        /\ tfidf_matrix.some => tfidf_matrix.rows = CorpusCleanLen(df)

\* C29: the vectorizer and the matrix at the two artifact paths come from
\* the same fit, whatever runs, failed writes included, came before.
C29_PersistedPairSameFit == (vecFile.present /\ matFile.present) => fits.vecFile = fits.matFile

\* The temperatures of the four bands, narrowest range first.
BandTemperatures == {FindOptimalTemperature(<<0, r>>) : r \in {0, 2, 10, 20}}

\* C27: the temperature is one of four fixed values fixed by the range of
\* the scores, it never goes down when the range goes up, and the logits
\* classify builds with a narrower band's temperature give a top-1
\* probability at least as high as with a wider band's temperature.
C27_NarrowBandSharper ==
    pc = "softmax" =>
        /\ Cardinality(BandTemperatures) = 4 /\ call.optimal_temp \in BandTemperatures
        /\ \A other \in SimVectors :
             /\ ScoreRange(other) = ScoreRange(call.scores) => FindOptimalTemperature(other) = call.optimal_temp
             /\ ScoreRange(other) <= ScoreRange(call.scores) => FindOptimalTemperature(other) <= call.optimal_temp
        /\ \A narrow, wide \in BandTemperatures :
             narrow < wide => Top1AtLeast(Logits(call.scores, narrow), Logits(call.scores, wide))

\* What the engine owns: the corpus, both indexes, the persisted artifacts.
EngineOwned == <<df, vecFile, matFile, embFile, tfidf_vectorizer, tfidf_matrix, embeddings, embed_model>>

\* C25 (as stated): after construction a retrieval call on an engine whose
\* lexical index validates changes nothing the engine owns, a classify call
\* changes neither the label set nor a cache field, and nothing but the
\* self-heal rebuild and the label-set replacement changes owned state.
C25_CallsChangeNothing ==
    [][/\ (pc = "ready" /\ pc' = "responded" /\ call'.op \in {"retrieve", "by_disease", "by_question_type"}
              /\ tfidf_vectorizer.some /\ tfidf_vectorizer.fitted) => EngineOwned' = EngineOwned
       /\ (pc = "ready" /\ pc' = "responded" /\ call'.op = "classify") =>
              (clf'.labels = clf.labels /\ clf'.cache = clf.cache /\ clf'.cached_hash = clf.cached_hash)
       /\ (pc = "ready" /\ pc' = "responded" /\ EngineOwned' # EngineOwned) => (call'.op = "retrieve" /\ call'.rebuilt)
       /\ (clf.stage = "instance" /\ clf' # clf) => call'.op = "set_labels"]_vars

\* C25 (amended): as above, except that a classify call that has a model,
\* opens the image and does not find cached features for the current labels
\* stores the features and the hash of the current labels; every other
\* classify call changes no cache field, and none changes the label set.
C25_FrameWithCacheFill ==
    [][/\ (pc = "ready" /\ pc' = "responded" /\ call'.op \in {"retrieve", "by_disease", "by_question_type"}
              /\ tfidf_vectorizer.some /\ tfidf_vectorizer.fitted) => EngineOwned' = EngineOwned
       /\ (pc = "ready" /\ pc' = "responded" /\ call'.op = "classify") =>
              /\ clf'.labels = clf.labels
              /\ [clf' EXCEPT !.cache = clf.cache, !.cached_hash = clf.cached_hash] = clf
              /\ (call'.path # "encoded") => clf' = clf
              /\ (call'.path = "encoded") => (clf'.cache.some /\ clf'.cache.labels = clf.labels /\ clf'.cached_hash.some)
       /\ (pc = "ready" /\ pc' = "responded" /\ EngineOwned' # EngineOwned) => (call'.op = "retrieve" /\ call'.rebuilt)
       /\ (clf.stage = "instance" /\ clf' # clf) => (call'.op = "set_labels" \/ (call'.op = "classify" /\ call'.path = "encoded"))]_vars

C25_Witness ==
    /\ call.op = "classify" /\ call.path = "encoded" /\ pc = "responded"
    /\ clf.cache.some /\ clf.cache.labels = clf.labels /\ Len(clf.labels) = 3
    /\ tfidf_vectorizer.some /\ tfidf_vectorizer.fitted /\ embed_model

\* C30: the retrieval context process_query gathers holds no two records
\* with the same Question text, in each of its four branches.
C30_ContextDistinctQuestions ==
    (call.op = "process_query" /\ call.outcome = "returned") =>
        \A i, j \in 1 .. Len(call.context) : i # j => df.q[call.context[i]] # df.q[call.context[j]]

====
